---- MODULE Spec2Model ----
(***************************************************************************)
(* experimental/cpp-serializer/include/debug.h                             *)
(*                                                                         *)
(*   5   #define AMQP_DEBUG 1                                              *)
(*   9   #if defined AMQP_DEBUG && AMQP_DEBUG >= 1                         *)
(*  10       #define DBG(X) std::cout << X                                 *)
(*  11   #else                                                             *)
(*  12       #define DBG(X)                                                *)
(*  13   #endif                                                            *)
(*                                                                         *)
(* The model has two halves.  The preprocessor half walks the header for   *)
(* one translation unit: the macro table entry AMQP_DEBUG on entry, the    *)
(* directive of line 5, the conditional of lines 9-13.  The run-time half  *)
(* is the code the expansion of DBG(X) leaves in the caller: nothing, or   *)
(* the chain  std::cout << X , executed by the calling threads one         *)
(* operand evaluation and one character at a time.                         *)
(*                                                                         *)
(* Spec     : the header as written, entered at line 5.                    *)
(* SpecCond : the conditional block of lines 9-13 alone, entered with      *)
(*            every macro table (the block as a function of AMQP_DEBUG).   *)
(***************************************************************************)
EXTENDS Integers, Sequences, FiniteSets, TLC

\* ------------------------------------------------------------- bounds
\* Invocations of DBG in one run, over all threads.
MaxCalls == 2
\* AMQP_DEBUG, when defined on entry, is an integer in -MaxFlag..MaxFlag.
MaxFlag == 2

Threads == {1, 2}
\* A macro table entry for AMQP_DEBUG: not defined, or defined as an integer.
Undef == [def |-> FALSE, val |-> 0]
Def(n) == [def |-> TRUE, val |-> n]
FlagValues == (-MaxFlag)..MaxFlag
MacroTable == {Undef} \cup {Def(n) : n \in FlagValues}

\* ------------------------------------------------- argument expressions
\* An operand of the chain handed to DBG: a string literal, an integer
\* literal, or the side-effecting expression i++ on a caller-local counter.
Str(s) == [k |-> "str", s |-> s, n |-> 0]
Int_(n) == [k |-> "int", s |-> <<>>, n |-> n]
Inc == [k |-> "inc", s |-> <<>>, n |-> 0]

\* The argument expressions the callers use:
\*   DBG("x")   DBG(i++)   DBG("ab" << i++)   DBG(-7)   DBG("" << i++)
Exprs ==
  { <<Str(<<"x">>)>>,
    <<Inc>>,
    <<Str(<<"a", "b">>), Inc>>,
    <<Int_(-7)>>,
    <<Str(<<>>), Inc>> }

\* ------------------------------------------ std::ostream formatting
Digit == <<"0", "1", "2", "3", "4", "5", "6", "7", "8", "9">>

RECURSIVE Dec(_)
\* operator<<(int), non-negative part: the decimal digits, most significant first
Dec(n) == IF n < 10 THEN <<Digit[n + 1]>>
          ELSE Dec(n \div 10) \o <<Digit[(n % 10) + 1]>>

\* The characters  std::cout << v  inserts for a value v.
Format(k, s, n) ==
  CASE k = "str" -> s
    [] OTHER -> IF n < 0 THEN <<"-">> \o Dec(-n) ELSE Dec(n)

\* ------------------------------------------------ the header, line 5
Define5_Zero(flag) == Def(0)

\* #define AMQP_DEBUG 1 : the macro table entry after the directive,
\* whatever it was before.
Define5(flag) == Def(1)

\* Line 5 on a table that already defines AMQP_DEBUG with another
\* replacement list is a redefinition: the translator must diagnose it, and
\* either goes on with the new definition or rejects the unit.
Redefines(flag) == flag.def /\ flag # Define5(flag)

\* --------------------------------------------- the header, lines 9-13
Selected_OrUndef(flag) == IF ~flag.def \/ flag.val >= 1 THEN "ENABLED" ELSE "DISABLED"

\* #if defined AMQP_DEBUG && AMQP_DEBUG >= 1
Selected(flag) == IF flag.def /\ flag.val >= 1 THEN "ENABLED" ELSE "DISABLED"

Expand_Both(m, X) == [ops |-> X, checked |-> FALSE]
Expand_Endl(m, X) ==
  IF m = "ENABLED" THEN [ops |-> X \o <<Str(<<"\n">>)>>, checked |-> FALSE]
  ELSE [ops |-> <<>>, checked |-> FALSE]
Expand_Twice(m, X) ==
  IF m = "ENABLED" THEN [ops |-> X \o X, checked |-> FALSE]
  ELSE [ops |-> <<>>, checked |-> FALSE]
Expand_Prefix(m, X) ==
  IF m = "ENABLED" THEN [ops |-> <<Str(<<":">>)>> \o X, checked |-> FALSE]
  ELSE [ops |-> <<>>, checked |-> FALSE]
Expand_Checked(m, X) ==
  IF m = "ENABLED" THEN [ops |-> X, checked |-> TRUE]
  ELSE [ops |-> <<>>, checked |-> FALSE]
Expand_Reversed(m, X) ==
  IF m = "ENABLED" THEN [ops |-> [j \in 1..Len(X) |-> X[Len(X) + 1 - j]], checked |-> FALSE]
  ELSE [ops |-> <<>>, checked |-> FALSE]

\* The replacement of DBG(X) in the mode the conditional selected:
\*   line 10   std::cout << X    the operands of X, inserted left to right,
\*                               the stream's state never tested
\*   line 12   (nothing)
Expand(m, X) ==
  IF m = "ENABLED" THEN [ops |-> X, checked |-> FALSE]
  ELSE [ops |-> <<>>, checked |-> FALSE]

\* ---------------------------------------------------------------- state
VARIABLES
  given,  \* the macro table entry AMQP_DEBUG on entry to the modelled text
  flag,   \* the macro table entry AMQP_DEBUG now
  ppc,    \* the preprocessor's place: "line5", "line9", "done", "rejected"
  mode,   \* the definition of DBG: "NONE", "ENABLED" (line 10), "DISABLED" (line 12)
  out,    \* the characters std::cout has taken
  who,    \* for each character of out, <<thread, number of its invocation>>
  bad,    \* std::cout's failure state (badbit/failbit)
  pc,     \* per thread: "idle", "eval", "write", "raised"
  cur,    \* per thread: operands of the running expansion not yet evaluated
  pend,   \* per thread: characters of the current insertion not yet written
  i,      \* per thread: the caller-local counter the operand i++ increments
  hist,   \* per thread: the argument expressions of its invocations, in order
  mark,   \* per thread: how many of its characters out held when its last invocation began
  i0      \* per thread: the counter when its last invocation began

vars == <<given, flag, ppc, mode, out, who, bad, pc, cur, pend, i, hist, mark, i0>>
pre == <<given, flag, ppc, mode>>
run == <<out, who, bad, pc, cur, pend, i, hist, mark, i0>>

RECURSIVE Own(_, _, _)
\* The characters of o that thread t wrote (w names each character's writer).
Own(o, w, t) ==
  IF o = <<>> THEN <<>>
  ELSE IF Head(w)[1] = t THEN <<Head(o)>> \o Own(Tail(o), Tail(w), t)
       ELSE Own(Tail(o), Tail(w), t)

RECURSIVE Total(_, _)
Total(h, S) ==
  IF S = {} THEN 0
  ELSE LET t == CHOOSE x \in S : TRUE IN Len(h[t]) + Total(h, S \ {t})

InitRun ==
  /\ out = <<>>
  /\ who = <<>>
  /\ bad = FALSE
  /\ pc = [t \in Threads |-> "idle"]
  /\ cur = [t \in Threads |-> <<>>]
  /\ pend = [t \in Threads |-> <<>>]
  /\ i = [t \in Threads |-> 0]
  /\ hist = [t \in Threads |-> <<>>]
  /\ mark = [t \in Threads |-> 0]
  /\ i0 = [t \in Threads |-> 0]

\* A translation unit reaches line 5 with AMQP_DEBUG undefined, or defined
\* by the includer (#define before #include, or -DAMQP_DEBUG=n).
Init ==
  /\ given \in MacroTable
  /\ flag = given
  /\ ppc = "line5"
  /\ mode = "NONE"
  /\ InitRun

\* The conditional block on its own: line 9 reached with any macro table.
\* Through the header line 5 runs first and only Def(1) stands here, so these
\* initial states contain the header's and more: what holds in every state
\* of SpecCond holds of the header, while a state reached only here is not
\* a state of the header.
InitCond ==
  /\ given \in MacroTable
  /\ flag = given
  /\ ppc = "line9"
  /\ mode = "NONE"
  /\ InitRun

\* ------------------------------------------------------- preprocessing
\* Line 5.
Define ==
  /\ ppc = "line5"
  /\ \/ /\ flag' = Define5(flag)
        /\ ppc' = "line9"
     \/ /\ Redefines(flag)
        /\ flag' = flag
        /\ ppc' = "rejected"
  /\ UNCHANGED <<given, mode>>
  /\ UNCHANGED run

\* Lines 9-13.
Select ==
  /\ ppc = "line9"
  /\ mode' = Selected(flag)
  /\ ppc' = "done"
  /\ UNCHANGED <<given, flag>>
  /\ UNCHANGED run

\* ------------------------------------------------------------ run time
\* Where a thread stands once it has p left of the current insertion and
\* ops left of the chain; a statement that tests the stream raises on failure.
After(ops, p, checked, b) ==
  IF p # <<>> THEN "write"
  ELSE IF ops # <<>> THEN "eval"
  ELSE IF checked /\ b THEN "raised"
  ELSE "idle"

\* Thread t reaches a statement  DBG(X);
Invoke(t, X) ==
  /\ ppc = "done"
  /\ pc[t] = "idle"
  /\ Total(hist, Threads) < MaxCalls
  /\ LET e == Expand(mode, X) IN
       /\ cur' = [cur EXCEPT ![t] = e.ops]
       /\ pc' = [pc EXCEPT ![t] = After(e.ops, <<>>, FALSE, bad)]
  /\ hist' = [hist EXCEPT ![t] = Append(@, X)]
  /\ mark' = [mark EXCEPT ![t] = Len(Own(out, who, t))]
  /\ i0' = [i0 EXCEPT ![t] = i[t]]
  /\ UNCHANGED <<out, who, bad, pend, i>>
  /\ UNCHANGED pre

\* The next operand of the chain is evaluated, and its insertion begins.
\* An insertion of no character (the literal "") is over at once: nothing
\* is written and the stream's state stays as it is.
Eval(t) ==
  /\ pc[t] = "eval"
  /\ LET o == Head(cur[t])
         v == IF o.k = "inc" THEN i[t] ELSE o.n
         p == Format(o.k, o.s, v)
         checked == Expand(mode, Head(hist[t])).checked
     IN /\ i' = [i EXCEPT ![t] = IF o.k = "inc" THEN @ + 1 ELSE @]
        /\ pend' = [pend EXCEPT ![t] = p]
        /\ pc' = [pc EXCEPT ![t] = After(Tail(cur[t]), p, checked, bad)]
  /\ cur' = [cur EXCEPT ![t] = Tail(@)]
  /\ UNCHANGED <<out, who, bad, hist, mark, i0>>
  /\ UNCHANGED pre

\* One step of an insertion: a character reaches the stream, or the write
\* fails and sets the stream's failure state, or (the stream having failed
\* already) the insertion does nothing.
Write(t) ==
  /\ pc[t] = "write"
  /\ pend[t] # <<>>
  /\ LET checked == Expand(mode, Head(hist[t])).checked IN
     \/ /\ ~bad
        /\ out' = Append(out, Head(pend[t]))
        /\ who' = Append(who, <<t, Len(hist[t])>>)
        /\ pend' = [pend EXCEPT ![t] = Tail(@)]
        /\ pc' = [pc EXCEPT ![t] = After(cur[t], Tail(pend[t]), checked, FALSE)]
        /\ UNCHANGED bad
     \/ /\ bad' = TRUE
        /\ pend' = [pend EXCEPT ![t] = <<>>]
        /\ pc' = [pc EXCEPT ![t] = After(cur[t], <<>>, checked, TRUE)]
        /\ UNCHANGED <<out, who>>
  /\ UNCHANGED <<cur, i, hist, mark, i0>>
  /\ UNCHANGED pre

Next ==
  \/ Define
  \/ Select
  \/ \E t \in Threads, X \in Exprs : Invoke(t, X)
  \/ \E t \in Threads : Eval(t)
  \/ \E t \in Threads : Write(t)

NextCond ==
  \/ Select
  \/ \E t \in Threads, X \in Exprs : Invoke(t, X)
  \/ \E t \in Threads : Eval(t)
  \/ \E t \in Threads : Write(t)

Spec == Init /\ [][Next]_vars
SpecCond == InitCond /\ [][NextCond]_vars

\* ------------------------------------------------- reference semantics
\* What the claims compare the macro with: the statement  std::cout << ops
\* written out by hand in a caller whose counter stands at c.
RECURSIVE Direct(_, _)
Direct(ops, c) ==
  IF ops = <<>> THEN <<>>
  ELSE LET o == Head(ops) IN
       IF o.k = "inc" THEN Dec(c) \o Direct(Tail(ops), c + 1)
       ELSE Format(o.k, o.s, o.n) \o Direct(Tail(ops), c)

RECURSIVE NInc(_)
\* How many i++ an expression holds.
NInc(ops) ==
  IF ops = <<>> THEN 0
  ELSE (IF Head(ops).k = "inc" THEN 1 ELSE 0) + NInc(Tail(ops))

RECURSIVE NIncAll(_)
NIncAll(h) == IF h = <<>> THEN 0 ELSE NInc(Head(h)) + NIncAll(Tail(h))

RECURSIVE Chain(_, _)
\* The single-call outputs of the invocations h, one after the other.
Chain(h, c) ==
  IF h = <<>> THEN <<>>
  ELSE Direct(Head(h), c) \o Chain(Tail(h), c + NInc(Head(h)))

IsPrefix(a, b) == Len(a) <= Len(b) /\ a = SubSeq(b, 1, Len(a))
Mine(t) == Own(out, who, t)
Alone(t) == \A u \in Threads \ {t} : hist[u] = <<>>
X_x == <<Str(<<"x">>)>>

\* --------------------------------------------------------------- claims
\* C1 (as stated): a unit that defines AMQP_DEBUG as 0 before the header is
\* processed comes out of the header in the DISABLED mode, and its
\* invocations of the macro write nothing.
C1_DefineBeforeIncludeWins ==
  given = Def(0) =>
    /\ (ppc = "done" => mode = "DISABLED")
    /\ out = <<>>

\* C2: in the DISABLED mode no invocation evaluates its argument (every
\* caller's counter stays where it started) and the stream takes no
\* character, however many invocations were made; the invocation is over at
\* once.
C2_DisabledErasure ==
  mode = "DISABLED" =>
    /\ out = <<>>
    /\ \A t \in Threads : i[t] = 0 /\ pc[t] = "idle" /\ cur[t] = <<>>

C2_Witness ==
  /\ mode = "DISABLED"
  /\ \E t \in Threads : hist[t] = << <<Inc>>, <<Str(<<"a", "b">>), Inc>> >>

\* C3: in the ENABLED mode a completed invocation with argument V has
\* appended, for its caller, exactly the characters the hand-written
\*  std::cout << V  appends: nothing before, between or after them.
C3_EnabledPassThrough ==
  \A t \in Threads :
    (mode = "ENABLED" /\ pc[t] = "idle" /\ ~bad /\ hist[t] # <<>>) =>
      SubSeq(Mine(t), mark[t] + 1, Len(Mine(t)))
        = Direct(hist[t][Len(hist[t])], i0[t])

C3_Witness ==
  \E t \in Threads :
    /\ mode = "ENABLED" /\ pc[t] = "idle" /\ ~bad
    /\ hist[t] = << <<Str(<<"a", "b">>), Inc>>, <<Int_(-7)>> >>
    /\ Mine(t) = <<"a", "b", "0", "-", "7">>

\* C4 (as stated): a flag defined as 0 selects DISABLED and a flag defined
\* as any other integer selects ENABLED, for every integer the includer
\* defines the flag as.
C4_NonzeroEnables ==
  (ppc = "done" /\ given.def) =>
    /\ (given.val = 0 => mode = "DISABLED")
    /\ (given.val # 0 => mode = "ENABLED")

\* C5: a unit that does not define the flag is accepted and comes out of
\* the header in the ENABLED mode; its single invocation DBG("x") leaves
\* exactly  x  on the stream.
C5_DefaultEnabled ==
  given = Undef =>
    /\ ppc # "rejected"
    /\ (ppc = "done" => mode = "ENABLED")
    /\ \A t \in Threads :
         (pc[t] = "idle" /\ ~bad /\ Alone(t) /\ hist[t] = <<X_x>>) => out = <<"x">>

C5_Witness ==
  /\ given = Undef /\ ppc = "done" /\ ~bad
  /\ pc[1] = "idle" /\ hist[1] = <<X_x>> /\ Alone(1) /\ out = <<"x">>

\* C6: in the ENABLED mode an invocation evaluates each operand of its
\* argument exactly once: between invocations a caller's counter equals the
\* number of i++ in the arguments it has passed, and is never ahead of it
\* (whether or not the stream still takes characters).
C6_EvaluatedOnce ==
  \A t \in Threads :
    mode = "ENABLED" =>
      /\ i[t] <= NIncAll(hist[t])
      /\ (pc[t] = "idle" => i[t] = NIncAll(hist[t]))

C6_Witness ==
  \E t \in Threads :
    /\ mode = "ENABLED" /\ pc[t] = "idle"
    /\ Len(hist[t]) = MaxCalls /\ i[t] = MaxCalls

\* C7: with AMQP_DEBUG not defined where the conditional is evaluated, the
\* conditional is evaluated without error and selects DISABLED; invocations
\* then evaluate nothing and write nothing.
C7_UndefinedIsDisabled ==
  given = Undef =>
    /\ ppc \in {"line9", "done"}
    /\ (ppc = "done" => mode = "DISABLED")
    /\ out = <<>>
    /\ \A t \in Threads : i[t] = 0

C7_Witness ==
  /\ given = Undef /\ ppc = "done" /\ mode = "DISABLED"
  /\ \E t \in Threads : hist[t] # <<>> /\ NIncAll(hist[t]) > 0

\* C8: in the ENABLED mode, with one caller, the stream holds between
\* invocations the single-call outputs of V1..Vn one after the other, in call
\* order.
C8_Concatenation ==
  \A t \in Threads :
    (mode = "ENABLED" /\ pc[t] = "idle" /\ ~bad /\ Alone(t)) =>
      out = Chain(hist[t], 0)

C8_Witness ==
  \E t \in Threads :
    /\ mode = "ENABLED" /\ pc[t] = "idle" /\ ~bad /\ Alone(t)
    /\ hist[t] = <<X_x, X_x>>
    /\ out = <<"x", "x">>

\* C9: in either mode no invocation leaves its caller in an error state,
\* and a failed write changes nothing for the caller: between invocations
\* its counter is what the arguments it passed make it, stream failed or not.
C9_NoRuntimeFailure ==
  \A t \in Threads :
    /\ pc[t] \in {"idle", "eval", "write"}
    /\ (pc[t] = "idle" /\ mode # "NONE") =>
         i[t] = IF mode = "ENABLED" THEN NIncAll(hist[t]) ELSE 0

C9_Witness ==
  \E t \in Threads :
    /\ bad /\ out = <<>>
    /\ pc[t] = "idle" /\ Len(hist[t]) = MaxCalls /\ i[t] > 0

\* C10: whatever the interleaving, the characters a thread has written
\* stand on the stream in that thread's program order (the witness is a
\* stream on which another thread's characters stand between two characters
\* of one invocation).
C10_OwnOrderKept ==
  \A t \in Threads :
    mode = "ENABLED" => IsPrefix(Mine(t), Chain(hist[t], 0))

C10_Witness ==
  /\ mode = "ENABLED"
  /\ \E a, b, c \in 1..Len(who) :
       a < b /\ b < c /\ who[a] = who[c] /\ who[b][1] # who[a][1]

====
